---- MODULE Spec2Model ----
(***************************************************************************)
(* Model of cssSelectorBuilder (src/src/05-objects-tasks.js).              *)
(*                                                                         *)
(* The JavaScript heap is a sequence of objects; an object is its          *)
(* prototype link and its own properties.  A property read walks the       *)
(* prototype chain, a property write creates or replaces an own property.  *)
(* Every builder method is one action: it allocates the object of          *)
(* Object.create(cssSelectorBuilder), performs the method's assignments    *)
(* and checks in source order and either returns the object to the caller  *)
(* or throws, leaving the object unreachable.                              *)
(***************************************************************************)
EXTENDS Integers, Sequences, FiniteSets, TLC

VARIABLES heap, refs, lineage, last

vars == <<heap, refs, lineage, last>>

\* ---------------------------------------------------------------- bounds
\* Objects on the heap (root included) in the branching specification.
MaxObjs == 4
\* Objects on the heap (root included) in the single-chain specification.
MaxChain == 7

\* Values passed to the part methods, and combinators passed to combine.
Values == {"a", "b"}
\* The branching specification passes one value and one combinator.
BranchValues == {"a"}
Combinators == {"+"}

\* ------------------------------------------------------------ the heap
\* The object cssSelectorBuilder itself.
Root == 1
\* The prototype of cssSelectorBuilder carries none of the builder's fields.
Null == 0

EmptyOwn == [p \in {} |-> 0]

\* const cssSelectorBuilder = { string: '', elementNum: 0, idNum: 0, pseodoEl: 0, ... }
\* (no order property)
cssSelectorBuilder ==
  [proto |-> Null,
   own   |-> [string |-> "", elementNum |-> 0, idNum |-> 0, pseodoEl |-> 0]]

\* Object.create(cssSelectorBuilder): a fresh object, no own properties,
\* delegating to the root builder.
ObjectCreate(h) == Append(h, [proto |-> Root, own |-> EmptyOwn])

\* The object of the prototype chain of o that owns property p; Null when
\* the lookup ends without finding it (the read yields undefined).
RECURSIVE Owner(_, _, _)
Owner(h, o, p) ==
  IF o = Null THEN Null
  ELSE IF p \in DOMAIN h[o].own THEN o
  ELSE Owner(h, h[o].proto, p)

\* o.p, for a property the chain defines.
GetProp(h, o, p) == h[Owner(h, o, p)].own[p]

\* o.p = v
SetProp(h, o, p, v) ==
  [h EXCEPT ![o].own =
     [q \in DOMAIN h[o].own \cup {p} |-> IF q = p THEN v ELSE h[o].own[q]]]

\* ------------------------------------------------------------ the methods
\* A call's result: the heap after it, how it ended, and the returned object.
Returned(h, obj) == [heap |-> h, outcome |-> "ok", ret |-> obj]
ThrownOrder(h) == [heap |-> h, outcome |-> "order", ret |-> Null]
ThrownDup(h) == [heap |-> h, outcome |-> "dup", ret |-> Null]

\* A slip in checkOrder: the comparison is written the wrong way round.
checkOrderFlipped(h, this, num) ==
  /\ Owner(h, this, "order") # Null
  /\ GetProp(h, this, "order") < num

\* A slip in checkOrder: equal ranks are rejected too.
checkOrderStrict(h, this, num) ==
  /\ Owner(h, this, "order") # Null
  /\ GetProp(h, this, "order") >= num

\* A slip in checkOrder: the bound is off by one.
checkOrderOffByOne(h, this, num) ==
  /\ Owner(h, this, "order") # Null
  /\ GetProp(h, this, "order") > num + 1

\* checkOrder(num) throws iff this.order > num; undefined > num is false.
checkOrder(h, this, num) ==
  /\ Owner(h, this, "order") # Null
  /\ GetProp(h, this, "order") > num

\* A slip in element: the child's counter is copied, not incremented.
elementNoIncrement(h, this, value) ==
  LET h1  == ObjectCreate(h)
      obj == Len(h1)
      h2  == SetProp(h1, obj, "elementNum", GetProp(h1, this, "elementNum"))
  IN IF checkOrder(h2, this, 1) THEN ThrownOrder(h2)
     ELSE IF GetProp(h2, obj, "elementNum") > 1 THEN ThrownDup(h2)
     ELSE LET h3 == SetProp(h2, obj, "order", 1)
              h4 == SetProp(h3, obj, "string", GetProp(h3, this, "string") \o value)
          IN Returned(h4, obj)

element(h, this, value) ==
  LET h1  == ObjectCreate(h)
      obj == Len(h1)
      h2  == SetProp(h1, obj, "elementNum", GetProp(h1, this, "elementNum") + 1)
  IN IF checkOrder(h2, this, 1) THEN ThrownOrder(h2)
     ELSE IF GetProp(h2, obj, "elementNum") > 1 THEN ThrownDup(h2)
     ELSE LET h3 == SetProp(h2, obj, "order", 1)
              h4 == SetProp(h3, obj, "string", GetProp(h3, this, "string") \o value)
          IN Returned(h4, obj)

\* A slip in id: the occurrence counter is kept on the shared root builder.
idSharedCounter(h, this, value) ==
  LET h1  == ObjectCreate(h)
      obj == Len(h1)
      h2  == SetProp(h1, Root, "idNum", GetProp(h1, this, "idNum") + 1)
  IN IF checkOrder(h2, this, 2) THEN ThrownOrder(h2)
     ELSE LET h3 == SetProp(h2, obj, "order", 2)
          IN IF GetProp(h3, obj, "idNum") > 1 THEN ThrownDup(h3)
             ELSE Returned(SetProp(h3, obj, "string",
                                   GetProp(h3, this, "string") \o "#" \o value), obj)

\* A slip in id: the occurrence test allows two.
idLooseCheck(h, this, value) ==
  LET h1  == ObjectCreate(h)
      obj == Len(h1)
      h2  == SetProp(h1, obj, "idNum", GetProp(h1, this, "idNum") + 1)
  IN IF checkOrder(h2, this, 2) THEN ThrownOrder(h2)
     ELSE LET h3 == SetProp(h2, obj, "order", 2)
          IN IF GetProp(h3, obj, "idNum") > 2 THEN ThrownDup(h3)
             ELSE Returned(SetProp(h3, obj, "string",
                                   GetProp(h3, this, "string") \o "#" \o value), obj)

\* A slip in id: the text is extended on the receiver before the checks and
\* then copied to the new object.
idAppendsToThis(h, this, value) ==
  LET h1  == ObjectCreate(h)
      obj == Len(h1)
      h2  == SetProp(h1, obj, "idNum", GetProp(h1, this, "idNum") + 1)
      h3  == SetProp(h2, this, "string", GetProp(h2, this, "string") \o "#" \o value)
  IN IF checkOrder(h3, this, 2) THEN ThrownOrder(h3)
     ELSE LET h4 == SetProp(h3, obj, "order", 2)
          IN IF GetProp(h4, obj, "idNum") > 1 THEN ThrownDup(h4)
             ELSE Returned(SetProp(h4, obj, "string", GetProp(h4, this, "string")), obj)

id(h, this, value) ==
  LET h1  == ObjectCreate(h)
      obj == Len(h1)
      h2  == SetProp(h1, obj, "idNum", GetProp(h1, this, "idNum") + 1)
  IN IF checkOrder(h2, this, 2) THEN ThrownOrder(h2)
     ELSE LET h3 == SetProp(h2, obj, "order", 2)
          IN IF GetProp(h3, obj, "idNum") > 1 THEN ThrownDup(h3)
             ELSE Returned(SetProp(h3, obj, "string",
                                   GetProp(h3, this, "string") \o "#" \o value), obj)

\* A slip in class: the order check is left out.
classNoCheck(h, this, value) ==
  LET h1  == ObjectCreate(h)
      obj == Len(h1)
      h2  == SetProp(h1, obj, "order", 3)
  IN Returned(SetProp(h2, obj, "string",
                      GetProp(h2, this, "string") \o "." \o value), obj)

\* A slip in class: the order is stored on the receiver, not on the new object.
classWritesThis(h, this, value) ==
  LET h1  == ObjectCreate(h)
      obj == Len(h1)
  IN IF checkOrder(h1, this, 3) THEN ThrownOrder(h1)
     ELSE LET h2 == SetProp(h1, this, "order", 3)
          IN Returned(SetProp(h2, obj, "string",
                              GetProp(h2, this, "string") \o "." \o value), obj)

class(h, this, value) ==
  LET h1  == ObjectCreate(h)
      obj == Len(h1)
  IN IF checkOrder(h1, this, 3) THEN ThrownOrder(h1)
     ELSE LET h2 == SetProp(h1, obj, "order", 3)
          IN Returned(SetProp(h2, obj, "string",
                              GetProp(h2, this, "string") \o "." \o value), obj)

\* A slip in attr: the closing bracket is missing from the template.
attrNoClose(h, this, value) ==
  LET h1  == ObjectCreate(h)
      obj == Len(h1)
  IN IF checkOrder(h1, this, 4) THEN ThrownOrder(h1)
     ELSE LET h2 == SetProp(h1, obj, "order", 4)
          IN Returned(SetProp(h2, obj, "string",
                              GetProp(h2, this, "string") \o "[" \o value), obj)

attr(h, this, value) ==
  LET h1  == ObjectCreate(h)
      obj == Len(h1)
  IN IF checkOrder(h1, this, 4) THEN ThrownOrder(h1)
     ELSE LET h2 == SetProp(h1, obj, "order", 4)
          IN Returned(SetProp(h2, obj, "string",
                              GetProp(h2, this, "string") \o "[" \o value \o "]"), obj)

\* A slip in pseudoClass: the order stored is the one of attr.
pseudoClassWrongOrder(h, this, value) ==
  LET h1  == ObjectCreate(h)
      obj == Len(h1)
  IN IF checkOrder(h1, this, 5) THEN ThrownOrder(h1)
     ELSE LET h2 == SetProp(h1, obj, "order", 4)
          IN Returned(SetProp(h2, obj, "string",
                              GetProp(h2, this, "string") \o ":" \o value), obj)

pseudoClass(h, this, value) ==
  LET h1  == ObjectCreate(h)
      obj == Len(h1)
  IN IF checkOrder(h1, this, 5) THEN ThrownOrder(h1)
     ELSE LET h2 == SetProp(h1, obj, "order", 5)
          IN Returned(SetProp(h2, obj, "string",
                              GetProp(h2, this, "string") \o ":" \o value), obj)

\* A slip in pseudoElement: the occurrence check is left out.
pseudoElementNoCheck(h, this, value) ==
  LET h1  == ObjectCreate(h)
      obj == Len(h1)
      h2  == SetProp(h1, obj, "pseodoEl", GetProp(h1, this, "pseodoEl") + 1)
  IN IF checkOrder(h2, this, 6) THEN ThrownOrder(h2)
     ELSE LET h3 == SetProp(h2, obj, "order", 6)
          IN Returned(SetProp(h3, obj, "string",
                              GetProp(h3, this, "string") \o "::" \o value), obj)

pseudoElement(h, this, value) ==
  LET h1  == ObjectCreate(h)
      obj == Len(h1)
      h2  == SetProp(h1, obj, "pseodoEl", GetProp(h1, this, "pseodoEl") + 1)
  IN IF checkOrder(h2, this, 6) THEN ThrownOrder(h2)
     ELSE LET h3 == SetProp(h2, obj, "order", 6)
          IN IF GetProp(h3, obj, "pseodoEl") > 1 THEN ThrownDup(h3)
             ELSE Returned(SetProp(h3, obj, "string",
                                   GetProp(h3, this, "string") \o "::" \o value), obj)

\* A slip in combine: the result takes over the right operand's order.
combineKeepsOrder(h, this, selector1, combinator, selector2) ==
  LET h1  == ObjectCreate(h)
      obj == Len(h1)
      h2  == IF Owner(h1, selector2, "order") = Null THEN h1
             ELSE SetProp(h1, obj, "order", GetProp(h1, selector2, "order"))
  IN Returned(SetProp(h2, obj, "string",
                      GetProp(h2, selector1, "string") \o " " \o combinator
                        \o " " \o GetProp(h2, selector2, "string")), obj)

\* A slip in combine: the left text is read from the receiver.
combineUsesThis(h, this, selector1, combinator, selector2) ==
  LET h1  == ObjectCreate(h)
      obj == Len(h1)
  IN Returned(SetProp(h1, obj, "string",
                      GetProp(h1, this, "string") \o " " \o combinator
                        \o " " \o GetProp(h1, selector2, "string")), obj)

combine(h, this, selector1, combinator, selector2) ==
  LET h1  == ObjectCreate(h)
      obj == Len(h1)
  IN Returned(SetProp(h1, obj, "string",
                      GetProp(h1, selector1, "string") \o " " \o combinator
                        \o " " \o GetProp(h1, selector2, "string")), obj)

stringify(h, this) == GetProp(h, this, "string")

\* ------------------------------------------------------- the part kinds
Kinds == {"element", "id", "class", "attr", "pseudoClass", "pseudoElement"}
Singletons == {"element", "id", "pseudoElement"}

\* The number each method hands to checkOrder and stores in obj.order.
Rank(k) ==
  CASE k = "element" -> 1
    [] k = "id" -> 2
    [] k = "class" -> 3
    [] k = "attr" -> 4
    [] k = "pseudoClass" -> 5
    [] k = "pseudoElement" -> 6

\* The method of the builder named k.
Method(k, h, this, value) ==
  CASE k = "element" -> element(h, this, value)
    [] k = "id" -> id(h, this, value)
    [] k = "class" -> class(h, this, value)
    [] k = "attr" -> attr(h, this, value)
    [] k = "pseudoClass" -> pseudoClass(h, this, value)
    [] k = "pseudoElement" -> pseudoElement(h, this, value)

\* ------------------------------------------------------------ the state
\* last: the most recent call and what the caller got back from it.
NoCall ==
  [op |-> "none", this |-> Null, value |-> "", sel1 |-> Null, sel2 |-> Null,
   outcome |-> "ok", ret |-> Root, text |-> ""]

\* heap:    the objects allocated so far, cssSelectorBuilder first.
\* refs:    the objects the caller holds (the root and every returned object).
\* lineage: for each object, the calls that led to it from the root; a
\*          combine step carries the lineages of its two operands.
Init ==
  /\ heap = <<cssSelectorBuilder>>
  /\ refs = {Root}
  /\ lineage = << <<>> >>
  /\ last = NoCall

\* A call of part method k on this with argument value.
Call(k, this, value) ==
  LET r == Method(k, heap, this, value)
      step == [kind |-> k, value |-> value]
  IN /\ heap' = r.heap
     /\ refs' = IF r.outcome = "ok" THEN refs \cup {r.ret} ELSE refs
     /\ lineage' = Append(lineage, Append(lineage[this], step))
     /\ last' = [op |-> k, this |-> this, value |-> value, sel1 |-> Null,
                 sel2 |-> Null, outcome |-> r.outcome, ret |-> r.ret, text |-> ""]

\* The calls of the branching specification: any held builder is the receiver.
Element == \E this \in refs, value \in BranchValues :
  Len(heap) < MaxObjs /\ Call("element", this, value)
Id == \E this \in refs, value \in BranchValues :
  Len(heap) < MaxObjs /\ Call("id", this, value)
Class == \E this \in refs, value \in BranchValues :
  Len(heap) < MaxObjs /\ Call("class", this, value)
Attr == \E this \in refs, value \in BranchValues :
  Len(heap) < MaxObjs /\ Call("attr", this, value)
PseudoClass == \E this \in refs, value \in BranchValues :
  Len(heap) < MaxObjs /\ Call("pseudoClass", this, value)
PseudoElement == \E this \in refs, value \in BranchValues :
  Len(heap) < MaxObjs /\ Call("pseudoElement", this, value)

CombineCall(this, selector1, combinator, selector2) ==
  LET r == combine(heap, this, selector1, combinator, selector2)
      step == [kind |-> "combine", value |-> combinator,
               left |-> lineage[selector1], right |-> lineage[selector2]]
  IN /\ heap' = r.heap
     /\ refs' = refs \cup {r.ret}
     /\ lineage' = Append(lineage, <<step>>)
     /\ last' = [op |-> "combine", this |-> this, value |-> combinator,
                 sel1 |-> selector1, sel2 |-> selector2,
                 outcome |-> r.outcome, ret |-> r.ret, text |-> ""]

Combine ==
  \E this \in refs, selector1 \in refs, selector2 \in refs,
     combinator \in Combinators :
    Len(heap) < MaxObjs /\ CombineCall(this, selector1, combinator, selector2)

StringifyCall(this) ==
  /\ last' = [op |-> "stringify", this |-> this, value |-> "", sel1 |-> Null,
              sel2 |-> Null, outcome |-> "ok", ret |-> Null,
              text |-> stringify(heap, this)]
  /\ UNCHANGED <<heap, refs, lineage>>

Stringify == \E this \in refs : StringifyCall(this)

\* Any held builder may be the receiver or an operand of the next call.
Next ==
  \/ Element
  \/ Id
  \/ Class
  \/ Attr
  \/ PseudoClass
  \/ PseudoElement
  \/ Combine
  \/ Stringify

Spec == Init /\ [][Next]_vars

\* One chained expression builder.k1(v1).k2(v2)....stringify(): each call's
\* receiver is the object the previous call returned; a throw or stringify
\* ends the expression.
Cur == last.ret

Chaining == last.outcome = "ok" /\ last.op # "stringify" /\ last.op # "combine"

ChainElement == \E value \in Values :
  Chaining /\ Len(heap) < MaxChain /\ Call("element", Cur, value)
ChainId == \E value \in Values :
  Chaining /\ Len(heap) < MaxChain /\ Call("id", Cur, value)
ChainClass == \E value \in Values :
  Chaining /\ Len(heap) < MaxChain /\ Call("class", Cur, value)
ChainAttr == \E value \in Values :
  Chaining /\ Len(heap) < MaxChain /\ Call("attr", Cur, value)
ChainPseudoClass == \E value \in Values :
  Chaining /\ Len(heap) < MaxChain /\ Call("pseudoClass", Cur, value)
ChainPseudoElement == \E value \in Values :
  Chaining /\ Len(heap) < MaxChain /\ Call("pseudoElement", Cur, value)
ChainStringify == Chaining /\ StringifyCall(Cur)

ChainNext ==
  \/ ChainElement
  \/ ChainId
  \/ ChainClass
  \/ ChainAttr
  \/ ChainPseudoClass
  \/ ChainPseudoElement
  \/ ChainStringify

ChainSpec == Init /\ [][ChainNext]_vars

TypeOK ==
  /\ Len(heap) = Len(lineage)
  /\ refs \subseteq DOMAIN heap
  /\ Root \in refs

\* ------------------------------------------------- vocabulary of the claims
\* The kinds of the calls of a lineage, in call order.
KindsOf(lin) == [i \in DOMAIN lin |-> lin[i].kind]

\* The lineage holds part calls only (no combine).
PartsOnly(lin) == \A i \in DOMAIN lin : lin[i].kind \in Kinds

\* How often kind k occurs in a lineage.
Occurrences(lin, k) == Cardinality({i \in DOMAIN lin : lin[i].kind = k})

\* The kind of the part last appended to builder o ("none" at the root).
LastKind(o) == IF lineage[o] = <<>> THEN "none" ELSE lineage[o][Len(lineage[o])].kind

\* The last call was a part call.
PartCall == last.op \in Kinds

\* The last call was a part call whose receiver's last part has a higher rank.
RankDecrease ==
  /\ PartCall
  /\ LastKind(last.this) \in Kinds
  /\ Rank(LastKind(last.this)) > Rank(last.op)

\* The last call repeats a singleton kind already present in the lineage.
SecondSingleton ==
  /\ PartCall
  /\ last.op \in Singletons
  /\ Occurrences(lineage[last.this], last.op) >= 1

\* Ranks never decrease and no singleton kind occurs twice.
ValidOrdering(lin) ==
  /\ PartsOnly(lin)
  /\ \A i \in DOMAIN lin : \A j \in DOMAIN lin :
        i < j => Rank(lin[i].kind) <= Rank(lin[j].kind)
  /\ \A k \in Singletons : Occurrences(lin, k) <= 1

\* The text one part contributes: the value with its kind's decoration.
Piece(k, value) ==
  CASE k = "element" -> value
    [] k = "id" -> "#" \o value
    [] k = "class" -> "." \o value
    [] k = "attr" -> "[" \o value \o "]"
    [] k = "pseudoClass" -> ":" \o value
    [] k = "pseudoElement" -> "::" \o value

\* The pieces of a lineage concatenated in call order.
RECURSIVE Concatenation(_)
Concatenation(lin) ==
  IF lin = <<>> THEN ""
  ELSE Concatenation(SubSeq(lin, 1, Len(lin) - 1))
         \o Piece(lin[Len(lin)].kind, lin[Len(lin)].value)

\* ------------------------------------------------------------------ claims
\* C1: a part call whose kind ranks below the part last appended to its
\* receiver raises the ordering error and hands no object to the caller.
C1_RankDecreaseRaisesOrder ==
  RankDecrease =>
    /\ last.outcome = "order"
    /\ last.ret = Null
    /\ Len(heap) \notin refs

C1_Witness ==
  /\ RankDecrease
  /\ last.op = "class"
  /\ KindsOf(lineage[last.this]) = <<"element", "id", "attr">>

\* C2 as stated: a second element, id or pseudoElement anywhere in a lineage
\* raises the duplicate-part error, whatever was called in between.
C2_SecondSingletonRaisesDup ==
  SecondSingleton => last.outcome = "dup"

\* C2 amended: a second element, id or pseudoElement in a lineage always
\* raises: the duplicate-part error when the receiver was itself produced by
\* that kind, the ordering error when other parts were appended in between.
C2_SecondSingletonRaises ==
  SecondSingleton =>
    /\ last.ret = Null
    /\ last.outcome = IF LastKind(last.this) = last.op THEN "dup" ELSE "order"

C2_Witness ==
  /\ SecondSingleton
  /\ last.op = "element"
  /\ KindsOf(lineage[last.this]) = <<"element", "id">>
  /\ last.outcome = "order"

\* C3: a chain from the root whose kinds never decrease in rank and that uses
\* element, id and pseudoElement at most once each raises at no step, and
\* stringify on its result succeeds.
C3_ValidOrderingSucceeds ==
  /\ \A o \in DOMAIN heap : ValidOrdering(lineage[o]) => o \in refs
  /\ last.op = "stringify" =>
        last.outcome = "ok" /\ last.text = GetProp(heap, last.this, "string")

C3_Witness ==
  /\ last.op = "stringify"
  /\ last.outcome = "ok"
  /\ KindsOf(lineage[last.this]) =
       <<"element", "id", "class", "attr", "pseudoClass", "pseudoElement">>

\* C4: the text of a builder chained from the root is the concatenation, in
\* call order, of its parts' decorated values, and a successful call extends
\* the receiver's text by exactly its own piece.
C4_TextIsConcatenation ==
  /\ \A o \in refs :
        PartsOnly(lineage[o]) => stringify(heap, o) = Concatenation(lineage[o])
  /\ (PartCall /\ last.outcome = "ok") =>
        stringify(heap, last.ret) =
          stringify(heap, last.this) \o Piece(last.op, last.value)
  /\ last.op = "stringify" => last.text = Concatenation(lineage[last.this])

C4_Witness ==
  /\ last.op = "stringify"
  /\ lineage[last.this] = <<[kind |-> "id", value |-> "a"],
                            [kind |-> "class", value |-> "b"],
                            [kind |-> "class", value |-> "a"],
                            [kind |-> "attr", value |-> "b"]>>
  /\ last.text = "#a.b.a[b]"

\* C5: a builder obtained by successful part calls from the root holds at
\* most one element, one id and one pseudoElement part.
C5_SingletonsAtMostOnce ==
  \A o \in refs : PartsOnly(lineage[o]) =>
    \A k \in Singletons : Occurrences(lineage[o], k) <= 1

C5_Witness ==
  /\ last.outcome = "ok"
  /\ PartCall
  /\ \A k \in Singletons : Occurrences(lineage[last.ret], k) = 1

\* The result of making the calls of a lineage, and nothing else, starting
\* from the root builder in heap h.
RECURSIVE BuiltAlone(_, _)
BuiltAlone(h, lin) ==
  IF lin = <<>> THEN Returned(h, Root)
  ELSE LET step == lin[Len(lin)]
       IN IF step.kind = "combine"
          THEN LET l == BuiltAlone(h, step.left)
                   r == BuiltAlone(l.heap, step.right)
               IN combine(r.heap, Root, l.ret, step.value, r.ret)
          ELSE LET b == BuiltAlone(h, SubSeq(lin, 1, Len(lin) - 1))
               IN IF b.outcome # "ok" THEN b
                  ELSE Method(step.kind, b.heap, b.ret, step.value)

\* lin extends base by exactly one call.
Continues(lin, base) ==
  /\ Len(lin) = Len(base) + 1
  /\ SubSeq(lin, 1, Len(base)) = base

\* C6: no operation, returning or throwing, changes an existing object (the
\* receiver, the combine operands, the root builder or any other), and every
\* successful part call and combine returns an object that did not exist.
C6_NoOperationMutates ==
  [][/\ \A o \in DOMAIN heap : o \in DOMAIN heap' /\ heap'[o] = heap[o]
     /\ (last'.op \in Kinds \cup {"combine"} /\ last'.outcome = "ok") =>
          /\ last'.ret \notin DOMAIN heap
          /\ last'.ret \in DOMAIN heap'
          /\ last'.ret \in refs']_vars

C6_Witness ==
  /\ last.op = "combine"
  /\ Cardinality({last.this, last.sel1, last.sel2, last.ret}) = 4
  /\ heap[Root] = cssSelectorBuilder

\* C7: under every interleaving of calls on shared builders, each held
\* builder's text and each call's outcome are those of its own lineage built
\* alone from the root.
C7_BranchesIndependent ==
  /\ \A o \in refs :
        LET alone == BuiltAlone(<<cssSelectorBuilder>>, lineage[o])
        IN /\ alone.outcome = "ok"
           /\ stringify(alone.heap, alone.ret) = stringify(heap, o)
  /\ PartCall =>
        BuiltAlone(<<cssSelectorBuilder>>, lineage[Len(heap)]).outcome = last.outcome

C7_Witness ==
  \E b \in refs \ {Root} : \E o1 \in refs : \E o2 \in refs :
    /\ PartsOnly(lineage[o1]) /\ PartsOnly(lineage[o2])
    /\ Continues(lineage[o1], lineage[b])
    /\ Continues(lineage[o2], lineage[b])
    /\ b < o1 /\ o1 < o2
    /\ stringify(heap, o1) # stringify(heap, o2)

\* C8: combine returns, without raising, a builder whose text is the left
\* operand's text, a space, the combinator, a space and the right operand's
\* text; the result is the same whichever builder combine is invoked on.
C8_CombineText ==
  [][last'.op = "combine" =>
       LET text == stringify(heap, last'.sel1) \o " " \o last'.value
                     \o " " \o stringify(heap, last'.sel2)
       IN /\ last'.outcome = "ok"
          /\ last'.ret \in refs'
          /\ stringify(heap', last'.ret) = text
          /\ \A t \in refs :
               combine(heap, t, last'.sel1, last'.value, last'.sel2).heap = heap']_vars

C8_Witness ==
  /\ last.op = "combine"
  /\ LastKind(last.sel1) = "combine"
  /\ last.this # last.sel1
  /\ stringify(heap, last.ret) = "a +  + a"

\* C9: a singleton kind called directly on the builder the same kind
\* produced raises the duplicate-part error, although the order check passes.
C9_TwiceInARowRaisesDup ==
  (PartCall /\ last.op \in Singletons /\ LastKind(last.this) = last.op) =>
    /\ ~checkOrder(heap, last.this, Rank(last.op))
    /\ last.outcome = "dup"

C9_Witness ==
  /\ last.op = "id"
  /\ KindsOf(lineage[last.this]) = <<"element", "id">>
  /\ last.outcome = "dup"

\* C10: a part call that raises hands nothing to the caller and leaves its
\* base builder as it was: same text, and every next call on it ends the same
\* way with the same text as it would have before the failed call.
C10_FailedCallLeavesBase ==
  [][(last'.op \in Kinds /\ last'.outcome # "ok") =>
       LET b == last'.this
       IN /\ last'.ret = Null
          /\ refs' = refs
          /\ stringify(heap', b) = stringify(heap, b)
          /\ \A k \in Kinds : \A v \in BranchValues :
               LET before == Method(k, heap, b, v)
                   after  == Method(k, heap', b, v)
               IN /\ after.outcome = before.outcome
                  /\ before.outcome = "ok" =>
                       stringify(after.heap, after.ret)
                         = stringify(before.heap, before.ret)]_vars

C10_Witness ==
  /\ PartCall
  /\ last.outcome = "ok"
  /\ last.this # Root
  /\ \E g \in DOMAIN heap \ refs :
       /\ g < last.ret
       /\ Continues(lineage[g], lineage[last.this])

\* C11: every builder a part call returns has order equal to the rank of the
\* kind just appended, and along a lineage of chained calls the order values
\* never decrease.
C11_OrderIsRankAndMonotone ==
  /\ \A o \in refs \ {Root} :
        /\ Owner(heap, o, "order") = o
        /\ GetProp(heap, o, "order") = Rank(LastKind(o))
  /\ \A o1 \in refs \ {Root} : \A o2 \in refs \ {Root} :
        o1 < o2 => GetProp(heap, o1, "order") <= GetProp(heap, o2, "order")

C11_Witness ==
  /\ PartCall
  /\ last.outcome = "ok"
  /\ Len(heap) = 6
  /\ [o \in 1..5 |-> GetProp(heap, o + 1, "order")] = <<1, 3, 3, 5, 6>>

\* ---------------------------------------------------------------- Rectangle
\* Rectangles constructed at most, and the largest width or height passed.
MaxRects == 2
MaxDim == 2

\* Widths and heights the caller passes: negative, zero and positive.
Dims == -1 .. MaxDim

\* new Rectangle(width, height): a fresh object; this.width, this.height and
\* the arrow function this.getArea, which closes over the constructed object.
Rectangle(h, width, height) ==
  LET h1   == Append(h, [proto |-> Null, own |-> EmptyOwn])
      this == Len(h1)
      h2   == SetProp(h1, this, "width", width)
      h3   == SetProp(h2, this, "height", height)
  IN Returned(SetProp(h3, this, "getArea", [self |-> this]), this)

\* A slip in getArea: the width is multiplied by itself.
getAreaSquare(h, o) ==
  LET this == GetProp(h, o, "getArea").self
  IN GetProp(h, this, "width") * GetProp(h, this, "width")

\* o.getArea(): () => this.width * this.height, this being the closed-over object.
getArea(h, o) ==
  LET this == GetProp(h, o, "getArea").self
  IN GetProp(h, this, "width") * GetProp(h, this, "height")

\* No rectangle exists yet.  lineage holds, per rectangle, the width and
\* height its caller last gave it.
RectInit ==
  /\ heap = <<>>
  /\ refs = {}
  /\ lineage = <<>>
  /\ last = [op |-> "none", this |-> Null, args |-> <<>>, ret |-> 0]

RectNew == \E width \in Dims, height \in Dims :
  LET r == Rectangle(heap, width, height)
  IN /\ Len(heap) < MaxRects
     /\ heap' = r.heap
     /\ refs' = refs \cup {r.ret}
     /\ lineage' = Append(lineage, [width |-> width, height |-> height])
     /\ last' = [op |-> "Rectangle", this |-> r.ret, args |-> <<width, height>>, ret |-> 0]

\* r.width = width
RectSetWidth == \E o \in refs, width \in Dims :
  /\ heap' = SetProp(heap, o, "width", width)
  /\ lineage' = [lineage EXCEPT ![o].width = width]
  /\ last' = [op |-> "setWidth", this |-> o, args |-> <<width>>, ret |-> 0]
  /\ UNCHANGED refs

\* r.height = height
RectSetHeight == \E o \in refs, height \in Dims :
  /\ heap' = SetProp(heap, o, "height", height)
  /\ lineage' = [lineage EXCEPT ![o].height = height]
  /\ last' = [op |-> "setHeight", this |-> o, args |-> <<height>>, ret |-> 0]
  /\ UNCHANGED refs

\* r.getArea()
RectGetArea == \E o \in refs :
  /\ last' = [op |-> "getArea", this |-> o, args |-> <<>>, ret |-> getArea(heap, o)]
  /\ UNCHANGED <<heap, refs, lineage>>

RectNext ==
  \/ RectNew
  \/ RectSetWidth
  \/ RectSetHeight
  \/ RectGetArea

RectSpec == RectInit /\ [][RectNext]_vars

\* C12: a rectangle exposes the width and height it was given, getArea()
\* returns their product, and after width or height is reassigned getArea()
\* returns the product of the current values.
C12_AreaIsCurrentProduct ==
  /\ \A o \in refs :
        /\ GetProp(heap, o, "width") = lineage[o].width
        /\ GetProp(heap, o, "height") = lineage[o].height
  /\ last.op = "Rectangle" =>
        /\ heap[last.this].own.width = last.args[1]
        /\ heap[last.this].own.height = last.args[2]
  /\ last.op = "getArea" =>
        last.ret = lineage[last.this].width * lineage[last.this].height

C12_Witness ==
  /\ last.op = "getArea"
  /\ last.ret = -2
  /\ lineage[last.this] = [width |-> 2, height |-> -1]
  /\ \E o \in refs : o # last.this /\ getArea(heap, o) = 4

\* ----------------------------------------------------------------- fromJSON
\* Members of the object a JSON text is written from, and objects fromJSON creates.
MaxMembers == 2
MaxParsed == 1

\* A JSON text is the sequence of its lexemes.  Property names and numbers
\* as written in the text, and what they denote.
KeyTokens == {"\"radius\"", "\"getArea\""}
NumTokens == {"10", "20"}

KeyName(tok) == CASE tok = "\"radius\"" -> "radius" [] tok = "\"getArea\"" -> "getArea"
NumberValue(tok) == CASE tok = "10" -> 10 [] tok = "20" -> 20

\* JSON.parse of the members that follow "{" or ",": a name, a colon and a
\* number, then either a comma and more members or the closing brace, which
\* must end the text.  A later member replaces an earlier one of the same name.
RECURSIVE ParseMembers(_, _, _)
ParseMembers(toks, i, acc) ==
  IF ~(i + 3 <= Len(toks)) THEN [ok |-> FALSE, value |-> EmptyOwn]
  ELSE IF ~(toks[i] \in KeyTokens /\ toks[i + 1] = ":" /\ toks[i + 2] \in NumTokens)
  THEN [ok |-> FALSE, value |-> EmptyOwn]
  ELSE LET name == KeyName(toks[i])
           acc2 == [q \in DOMAIN acc \cup {name} |->
                      IF q = name THEN NumberValue(toks[i + 2]) ELSE acc[q]]
       IN IF toks[i + 3] = "}"
          THEN [ok |-> i + 3 = Len(toks), value |-> acc2]
          ELSE IF toks[i + 3] = "," THEN ParseMembers(toks, i + 4, acc2)
          ELSE [ok |-> FALSE, value |-> EmptyOwn]

\* JSON.parse(json) for object texts: the parsed object's fields, or failure
\* (a SyntaxError is thrown).
JSONparse(toks) ==
  IF Len(toks) < 2 \/ toks[1] # "{" THEN [ok |-> FALSE, value |-> EmptyOwn]
  ELSE IF toks[2] = "}" THEN [ok |-> Len(toks) = 2, value |-> EmptyOwn]
  ELSE ParseMembers(toks, 2, EmptyOwn)

ThrownSyntax(h) == [heap |-> h, outcome |-> "syntax", ret |-> Null]

\* Object.setPrototypeOf(obj, proto)
SetPrototypeOf(h, obj, proto) == [h EXCEPT ![obj].proto = proto]

\* A slip in fromJSON: the capability set's own fields are spread into the
\* object as well.
fromJSONCopiesProto(h, proto, json) ==
  LET parsed == JSONparse(json)
  IN IF ~parsed.ok THEN ThrownSyntax(h)
     ELSE LET both == [q \in DOMAIN h[proto].own \cup DOMAIN parsed.value |->
                         IF q \in DOMAIN parsed.value THEN parsed.value[q]
                         ELSE h[proto].own[q]]
              h1   == Append(h, [proto |-> Null, own |-> both])
              obj  == Len(h1)
          IN Returned(SetPrototypeOf(h1, obj, proto), obj)

\* fromJSON(proto, json): obj is a new plain object holding a copy of the
\* parsed object's own fields; its prototype is then set to proto.  The
\* parser's error is not caught.
fromJSON(h, proto, json) ==
  LET parsed == JSONparse(json)
  IN IF ~parsed.ok THEN ThrownSyntax(h)
     ELSE LET h1  == Append(h, [proto |-> Null, own |-> parsed.value])
              obj == Len(h1)
          IN Returned(SetPrototypeOf(h1, obj, proto), obj)

\* Circle.prototype of the documented example: a capability set whose own
\* field is the method getArea.
CirclePrototype == [proto |-> Null, own |-> [getArea |-> "function"]]

\* The inputs: the text written from a list of members, intact or damaged.
Members == KeyTokens \X NumTokens
MemberLists == UNION {[1..n -> Members] : n \in 0..MaxMembers}

RECURSIVE MembersText(_)
MembersText(ms) ==
  IF ms = <<>> THEN <<>>
  ELSE LET m == ms[Len(ms)]
           front == SubSeq(ms, 1, Len(ms) - 1)
       IN (IF front = <<>> THEN <<>> ELSE MembersText(front) \o <<",">>)
            \o <<m[1], ":", m[2]>>

Text(ms) == <<"{">> \o MembersText(ms) \o <<"}">>

Damages == {"none", "truncated", "trailing", "headless"}

Damaged(toks, d) ==
  CASE d = "none" -> toks
    [] d = "truncated" -> SubSeq(toks, 1, Len(toks) - 1)
    [] d = "trailing" -> toks \o <<"}">>
    [] d = "headless" -> Tail(toks)

\* Property names read on held objects; width is defined nowhere.
PropNames == {"radius", "getArea", "width"}

\* lineage holds, per object fromJSON returned, the members its text was
\* written from and the capability set it was given.
JsonInit ==
  /\ heap = <<CirclePrototype>>
  /\ refs = {Root}
  /\ lineage = <<[members |-> <<>>, proto |-> Null]>>
  /\ last = [op |-> "none", this |-> Null, damage |-> "none", name |-> "",
             outcome |-> "ok", ret |-> Null]

FromJSON == \E proto \in refs, ms \in MemberLists, d \in Damages :
  LET r == fromJSON(heap, proto, Damaged(Text(ms), d))
  IN /\ Len(heap) < MaxParsed + 1
     /\ heap' = r.heap
     /\ refs' = IF r.outcome = "ok" THEN refs \cup {r.ret} ELSE refs
     /\ lineage' = IF r.outcome = "ok"
                   THEN Append(lineage, [members |-> ms, proto |-> proto])
                   ELSE lineage
     /\ last' = [op |-> "fromJSON", this |-> proto, damage |-> d, name |-> "",
                 outcome |-> r.outcome, ret |-> r.ret]

\* A read of property name on a held object: the object that supplies it.
JsonLookup == \E o \in refs, name \in PropNames :
  /\ last' = [op |-> "get", this |-> o, damage |-> "none", name |-> name,
              outcome |-> "ok", ret |-> Owner(heap, o, name)]
  /\ UNCHANGED <<heap, refs, lineage>>

JsonNext ==
  \/ FromJSON
  \/ JsonLookup

JsonSpec == JsonInit /\ [][JsonNext]_vars

\* The fields a list of members denotes: each name with the value of its
\* last member.
FieldsOf(ms) ==
  [name \in {KeyName(ms[i][1]) : i \in DOMAIN ms} |->
     LET i == CHOOSE i \in DOMAIN ms :
                /\ KeyName(ms[i][1]) = name
                /\ \A j \in DOMAIN ms : KeyName(ms[j][1]) = name => j <= i
     IN NumberValue(ms[i][2])]

\* C13: fromJSON returns an object whose own fields are exactly the parsed
\* fields and whose delegate is the capability set: names absent from the data
\* are supplied through it, none of its own fields is copied and it is left
\* unchanged; on a malformed text the parser's error propagates and no object
\* is returned.
C13_FromJSONAttachesDelegate ==
  /\ heap[Root] = CirclePrototype
  /\ \A o \in refs \ {Root} :
       /\ heap[o].own = FieldsOf(lineage[o].members)
       /\ heap[o].proto = lineage[o].proto
       /\ \A name \in PropNames :
            Owner(heap, o, name) =
              IF name \in DOMAIN FieldsOf(lineage[o].members) THEN o
              ELSE Owner(heap, lineage[o].proto, name)
  /\ last.op = "fromJSON" =>
       /\ last.outcome = IF last.damage = "none" THEN "ok" ELSE "syntax"
       /\ last.damage # "none" => last.ret = Null
       /\ last.damage = "none" => last.ret = Len(heap)
  /\ refs = DOMAIN heap
  /\ last.op = "get" /\ last.this # Root /\ last.name \notin DOMAIN heap[last.this].own =>
       last.ret = Owner(heap, heap[last.this].proto, last.name)

C13_Witness ==
  /\ last.op = "get"
  /\ last.name = "getArea"
  /\ last.this # Root
  /\ last.ret = Root
  /\ heap[last.this].own = [radius |-> 20]
  /\ Len(lineage[last.this].members) = 2

\* ------------------------------------------------------------- C14 .. C17
\* C14: a combine result owns a text and nothing else; any of the six kinds
\* can be appended to it as the next call without raising, the piece going to
\* the end of the combined text, and the checks on later calls see only the
\* parts appended after the combine.
C14_CombineResultAcceptsAnyPart ==
  /\ \A o \in refs : LastKind(o) = "combine" =>
        /\ DOMAIN heap[o].own = {"string"}
        /\ Owner(heap, o, "order") = Null
        /\ \A f \in {"elementNum", "idNum", "pseodoEl"} : GetProp(heap, o, f) = 0
  /\ (PartCall /\ LastKind(last.this) = "combine") =>
        /\ last.outcome = "ok"
        /\ stringify(heap, last.ret) =
             stringify(heap, last.this) \o Piece(last.op, last.value)
  /\ (PartCall /\ lineage[Len(heap)][1].kind = "combine") =>
        last.outcome =
          BuiltAlone(<<cssSelectorBuilder>>, Tail(lineage[Len(heap)])).outcome

C14_Witness ==
  /\ last.op = "element"
  /\ last.outcome = "ok"
  /\ LastKind(last.this) = "combine"
  /\ KindsOf(lineage[last.this][1].right) = <<"element">>
  /\ stringify(heap, last.ret) = "a + aa"

\* The last call of a lineage ranks below the part before it or repeats a
\* singleton kind of the lineage.
Violates(lin) ==
  LET n == Len(lin)
      k == lin[n].kind
  IN \/ n > 1 /\ Rank(lin[n - 1].kind) > Rank(k)
     \/ k \in Singletons /\ \E i \in 1 .. n - 1 : lin[i].kind = k

\* C15: in a call sequence a call raises exactly when its kind ranks below
\* the last appended part or repeats a singleton kind, every call before the
\* first such call has succeeded, and stringify never raises.
C15_ErrorsRaisedAtTheCall ==
  /\ \A o \in DOMAIN heap \ {Root} : o \notin refs <=> Violates(lineage[o])
  /\ \A o \in DOMAIN heap : o < Len(heap) => o \in refs
  /\ last.op = "stringify" =>
        last.outcome = "ok" /\ last.text = stringify(heap, last.this)

C15_Witness ==
  /\ last.outcome = "dup"
  /\ KindsOf(lineage[Len(heap)]) = <<"element", "class", "pseudoElement", "pseudoElement">>
  /\ refs = 1 .. 4

\* C16: a part call of kind k on state s raises the ordering error iff
\* s.order > rank(k); otherwise the duplicate-part error iff k is a singleton
\* kind and s was produced by a call of kind k; otherwise it succeeds.  The
\* two conditions never hold together.
C16_ErrorClassification ==
  PartCall =>
    LET s == last.this
        k == last.op
        tooHigh == Owner(heap, s, "order") # Null /\ GetProp(heap, s, "order") > Rank(k)
        repeat  == k \in Singletons /\ LastKind(s) = k
    IN /\ last.outcome = IF tooHigh THEN "order" ELSE IF repeat THEN "dup" ELSE "ok"
       /\ ~(tooHigh /\ repeat)
       /\ last.outcome = "dup" => LastKind(s) = k

C16_Witness ==
  /\ last.op = "id"
  /\ last.outcome = "dup"
  /\ KindsOf(lineage[last.this]) = <<"combine", "id">>

\* The counter property the method of a singleton kind maintains.
CounterOf(k) ==
  CASE k = "element" -> "elementNum"
    [] k = "id" -> "idNum"
    [] k = "pseudoElement" -> "pseodoEl"

\* C17: in every state of a lineage chained from the root each singleton
\* counter is at most 1 and equals the number of times its kind has been
\* appended in the lineage.
C17_CountersCountOccurrences ==
  \A o \in refs : \A k \in Singletons :
    /\ GetProp(heap, o, CounterOf(k)) <= 1
    /\ GetProp(heap, o, CounterOf(k)) = Occurrences(lineage[o], k)
====
